---- MODULE Spec2Model ----
(***************************************************************************)
(* Model of the WhatsApp secretary: webhook ingestion into the document    *)
(* store (main.py, app/schemas/webhook.py, app/services/firestore.py) and  *)
(* the periodic analysis run (daily_report.py with the agents and the      *)
(* spreadsheet / AI services).                                             *)
(***************************************************************************)
EXTENDS Integers, Sequences, FiniteSets, TLC

\* ------------------------------------------------------------------ bounds
MaxOps == 4         \* webhook deliveries, analysis runs, weeks gone by and failed calls, together
DayLen == 2         \* clock ticks per calendar day

\* ------------------------------------------------------- program constants
WindowDays == 6
MaxAttempts == 3
GroupMin == 2

VINCENT_CHAT_ID == "BAKgkSJ2VqKSlDDhOy4Cww"
MY_CHAT_ID == "33768389721"
FINANCE_GROUP_ID == "-zeA_LzlUnS3nCeRyIdS5Q"
GeneralChat == "c1@g.us"

\* The configured account scope (settings.UNIPILE_ACCOUNT_ID); "" disables it.
UNIPILE_ACCOUNT_ID == "acc1"

ChatIds == {FINANCE_GROUP_ID, MY_CHAT_ID, VINCENT_CHAT_ID, GeneralChat}
\* Document ids in the order an unordered collection query streams them
\* (ascending document name).
ChatOrder == <<FINANCE_GROUP_ID, MY_CHAT_ID, VINCENT_CHAT_ID, GeneralChat>>
MsgIds == {"m1", "m2"}

Absent == "<absent>"     \* a key the payload does not carry
Null == "<null>"         \* a key the payload carries with the JSON value null
Unset == 0               \* last_processed_at never written
Malformed == [valid |-> FALSE]

Range(s) == {s[i] : i \in DOMAIN s}

\* ------------------------------------------------------------ raw payloads
\* attendees lists the participants' identifiers; attendees_shape tells how
\* the payload writes each item: "objects" for {"attendee_id": ...}, "strings"
\* for the bare identifier.
BasePayload ==
    [event |-> "message_received", account_id |-> "acc1", id |-> "m1",
     chat_id |-> GeneralChat, timestamp |-> "t1",
     text |-> Absent, message |-> Absent, body |-> Absent,
     sender_id |-> "a1", sender_name |-> "Alice", chat_name |-> Absent,
     attendees |-> <<"a1", "me">>, attendees_shape |-> "objects",
     attachments |-> <<>>]

LongText == "long text of 120 characters"
LongTextPrefix == "first 100 characters of the long text"

Payloads ==
    { [text |-> "hello"] @@ BasePayload,
      [id |-> "m2", sender_id |-> "b1", sender_name |-> "Bob", body |-> LongText,
       chat_name |-> "Team", attendees |-> <<"a1", "b1", "me">>] @@ BasePayload,
      [id |-> "m2", sender_id |-> Absent, sender_name |-> Absent, timestamp |-> "",
       attachments |-> <<[id |-> "f1", url |-> "u1", filename |-> "a.pdf"]>>]
          @@ BasePayload,
      [chat_id |-> FINANCE_GROUP_ID, message |-> "taxi 20 EUR",
       sender_id |-> "v1", sender_name |-> "Vincent"] @@ BasePayload,
      [chat_id |-> FINANCE_GROUP_ID, id |-> "m2", text |-> "hotel 90 EUR",
       sender_id |-> "a1", sender_name |-> "Alice", timestamp |-> "t0",
       attendees |-> <<"a1", "v1", "me">>] @@ BasePayload,
      [chat_id |-> VINCENT_CHAT_ID, text |-> "plan",
       sender_id |-> "v1", sender_name |-> "Vincent"] @@ BasePayload,
      [chat_id |-> MY_CHAT_ID, text |-> "note",
       attendees |-> <<"a1", "b1", "me">>] @@ BasePayload,
      [event |-> "message_read", text |-> "hello"] @@ BasePayload,
      [account_id |-> "acc2", text |-> "hello"] @@ BasePayload,
      [chat_id |-> Absent, text |-> "hello"] @@ BasePayload,
      [timestamp |-> Absent, text |-> "hello"] @@ BasePayload,
      [text |-> Null] @@ BasePayload,
      [attendees_shape |-> "strings", text |-> "hello"] @@ BasePayload }

\* Request bodies that are not a JSON object: one request.json() cannot parse,
\* and a JSON list.
Unparseable == [raw |-> "{not json"]
NotAMapping == [raw |-> "[1, 2]"]
Bodies == Payloads \cup {Unparseable, NotAMapping}

\* ---------------------------------------------------------- normalisation
\* unify_text_field: data.get('text') or data.get('message') or data.get('body')
Truthy(v) == v \notin {Absent, Null, ""}

unify_text_field(p) ==
    IF Truthy(p.text) THEN p.text
    ELSE IF Truthy(p.message) THEN p.message
    ELSE IF Truthy(p.body) THEN p.body
    ELSE IF p.text = Absent THEN "" ELSE p.text     \* text: str = Field(default="")

\* normalize_timestamp: v if v else datetime.utcnow().isoformat()
normalize_timestamp(v, t) == IF Truthy(v) THEN v ELSE ToString(t)

\* UnipileMessageEvent(**payload): required fields without default are event,
\* account_id, id, chat_id and timestamp; a missing one is a ValidationError,
\* and so is a null where a str is declared (a null timestamp is replaced by
\* its validator first; a null text is not replaced when no key has content).
\* attendees is declared List[AttendeeItem] and no validator converts its
\* items: an item that is a bare string is not a valid AttendeeItem.
UnipileMessageEvent(p, t) ==
    IF p = NotAMapping THEN Malformed
    ELSE IF \/ \E f \in {"event", "account_id", "id", "chat_id", "timestamp"} :
                 p[f] = Absent
            \/ \E f \in {"event", "account_id", "id", "chat_id"} : p[f] = Null
            \/ unify_text_field(p) = Null
            \/ (p.attendees_shape = "strings" /\ p.attendees # <<>>)
    THEN Malformed
    ELSE [valid |-> TRUE,
          event |-> p.event,
          account_id |-> p.account_id,
          message_id |-> p.id,
          chat_id |-> p.chat_id,
          timestamp |-> normalize_timestamp(p.timestamp, t),
          text |-> unify_text_field(p),
          sender |-> [attendee_id |-> p.sender_id,
                      attendee_name |-> IF p.sender_name = Absent THEN "Inconnu"
                                        ELSE p.sender_name],
          chat_name |-> p.chat_name,
          attendees_data |-> [i \in DOMAIN p.attendees |->
                                 [attendee_id |-> p.attendees[i]]],
          attachments |-> p.attachments]

attendees_ids(event) ==
    SelectSeq([i \in DOMAIN event.attendees_data |->
                  event.attendees_data[i].attendee_id],
              LAMBDA a : Truthy(a))

\* ------------------------------------------------------------------- state
VARIABLES
    chats,        \* chats/{chat_id}: the conversation documents
    msgs,         \* chats/{chat_id}/messages: the message documents of a chat
    now,          \* the document store's clock (SERVER_TIMESTAMP), in ticks
    pc,           \* position of daily_report.main
    chat_ids,     \* main: the flagged chats still to visit
    cur,          \* main: the conversation being processed
    history,      \* main: the text fetched for cur (a sequence of lines)
    batch,        \* main: the messages (id, stored_at) whose lines make up history
    appendRes,    \* main: outcome of the last append_row for cur
    txs,          \* main: transactions still to write (finance part)
    sheetsReady,  \* GoogleSheetsService.service is not None
    cycles,       \* runs of main started so far
    ops,          \* webhook deliveries, analysis runs, weeks gone by and failed calls so far
    faults,       \* calls of the store, the AI or the spreadsheet service that failed
    default_config, \* GeminiService.default_config.system_instruction of the
                  \* service in use (NoInstruction: none set)
    handed,       \* per message id: the last run that handed it to a strategy, and the
                  \* stored_at of the version handed (run 0: never handed)
    lastOp        \* the last store or spreadsheet operation and its outcome

vars == <<chats, msgs, now, pc, chat_ids, cur, history, batch, appendRes, txs,
          sheetsReady, cycles, ops, faults, handed, lastOp, default_config>>
storeVars == <<chats, msgs>>
cycleVars == <<pc, chat_ids, cur, history, batch, appendRes, txs, sheetsReady, cycles>>

NoInstruction == "<none>"

NoChat ==
    [exists |-> FALSE, last_message_preview |-> [name |-> "", text |-> ""],
     last_activity |-> "", updated_at |-> Unset, is_group |-> FALSE,
     ai_processed |-> FALSE, needs_summary |-> FALSE,
     participants_ids |-> <<>>, participants_names |-> <<>>,
     chat_name |-> "", last_processed_at |-> Unset]

Day(t) == t \div DayLen

\* --------------------------------------------------------- store primitives
\* An array field written like the other fields: the last write wins.
ArrayOverwrite(arr, e) == <<e>>
\* firestore.ArrayUnion([e]): appends e unless the array already holds it.
ArrayUnion(arr, e) == IF e \in Range(arr) THEN arr ELSE Append(arr, e)

\* A store whose set() would add a document beside the one of the same id.
SetDocAdd(coll, doc) == coll \cup {doc}
\* DocumentReference.set(doc) on messages/{doc.id}: replaces the document.
SetDoc(coll, doc) == {d \in coll : d.id # doc.id} \cup {doc}

\* A set() without merge: the fields the update does not carry are lost.
SetOverwrite(old, update) == [exists |-> TRUE] @@ update @@ NoChat
\* DocumentReference.set(update, merge=True): fields of update win, the others stay.
SetMerge(old, update) == [exists |-> TRUE] @@ update @@ old

\* DocumentReference.update(fields): fails when the document does not exist.
Update(old, fields) == IF old.exists THEN fields @@ old ELSE old

\* Two separate writes, the second of which can fail after the first.
BatchCommitPartial(ms, cs, c, msg_doc, chat_update, ok) ==
    [msgs |-> [ms EXCEPT ![c] = SetDoc(ms[c], msg_doc)],
     chats |-> IF ok THEN [cs EXCEPT ![c] = SetMerge(cs[c], chat_update)] ELSE cs]
\* WriteBatch.commit(): the two writes are applied together or not at all.
BatchCommit(ms, cs, c, msg_doc, chat_update, ok) ==
    IF ok
    THEN [msgs |-> [ms EXCEPT ![c] = SetDoc(ms[c], msg_doc)],
          chats |-> [cs EXCEPT ![c] = SetMerge(cs[c], chat_update)]]
    ELSE [msgs |-> ms, chats |-> cs]

\* --------------------------------------------------------------- ingestion
DurableUrl(a) == IF a.id = "f1" THEN "firebase/f1.pdf" ELSE "firebase/file.bin"

\* process_attachments: each attachment with a download URL is re-hosted when
\* the download and the upload succeed (att = "rehosted"); otherwise it keeps
\* its URL.
process_attachments(event, att) ==
    [event EXCEPT !.attachments =
        [i \in DOMAIN event.attachments |->
            IF att = "rehosted"
               /\ (Truthy(event.attachments[i].url) \/ Truthy(event.attachments[i].id))
            THEN [event.attachments[i] EXCEPT !.url = DurableUrl(event.attachments[i])]
            ELSE event.attachments[i]]]

Prefix100(t) == IF t = LongText THEN LongTextPrefix ELSE t

IsGroupId(c) == c = GeneralChat     \* "@g.us" in chat_id

\* A detection that already counts two participants as a group.
is_group_from_two(event) ==
    \/ Len(attendees_ids(event)) >= GroupMin
    \/ (event.chat_id # "" /\ IsGroupId(event.chat_id))
\* A detection that keeps a conversation a group once it was one.
is_group_sticky(event) ==
    \/ chats[event.chat_id].is_group
    \/ Len(attendees_ids(event)) > GroupMin
    \/ (event.chat_id # "" /\ IsGroupId(event.chat_id))
is_group_of(event) ==
    Len(attendees_ids(event)) > GroupMin \/ (event.chat_id # "" /\ IsGroupId(event.chat_id))

msg_doc_of(event, t) ==
    [id |-> event.message_id, account_id |-> event.account_id,
     chat_id |-> event.chat_id, timestamp |-> event.timestamp,
     text |-> event.text, sender |-> event.sender, chat_name |-> event.chat_name,
     attendees |-> event.attendees_data, attachments |-> event.attachments,
     stored_at |-> t]

preview_of(event) ==
    LET sender_name == IF Truthy(event.sender.attendee_name)
                       THEN event.sender.attendee_name ELSE "Inconnu"
        file == IF event.attachments # <<>>
                THEN (IF Truthy(event.attachments[1].filename)
                      THEN event.attachments[1].filename ELSE "Media")
                ELSE ""
        preview_text == IF event.text = "" /\ event.attachments # <<>>
                        THEN file ELSE Prefix100(event.text)
    IN [name |-> sender_name, text |-> preview_text]

chat_update_of(old, event, t) ==
    LET sender_name == IF Truthy(event.sender.attendee_name)
                       THEN event.sender.attendee_name ELSE "Inconnu"
        sender_id == event.sender.attendee_id
    IN  [last_message_preview |-> preview_of(event),
         last_activity |-> event.timestamp,
         updated_at |-> t,
         is_group |-> is_group_of(event),
         ai_processed |-> FALSE,
         needs_summary |-> TRUE,
         participants_ids |-> IF Truthy(sender_id)
                              THEN ArrayUnion(old.participants_ids, sender_id)
                              ELSE old.participants_ids,
         participants_names |-> IF sender_name # "Inconnu"
                                THEN ArrayUnion(old.participants_names, sender_name)
                                ELSE old.participants_names,
         chat_name |-> IF Truthy(event.chat_name) THEN event.chat_name
                       ELSE old.chat_name]

\* save_message_event: the store after the call and the value returned.
\* att is the outcome of the attachment step ("rehosted", "kept", or
\* "bucket_error" when storage.bucket() raises), ok that of batch.commit().
save_message_event(ms, cs, event0, t, att, ok) ==
    IF event0.attachments # <<>> /\ att = "bucket_error"
    THEN [msgs |-> ms, chats |-> cs, result |-> FALSE]
    ELSE LET event == IF event0.attachments # <<>>
                      THEN process_attachments(event0, att) ELSE event0
             c == event.chat_id
         IN  [result |-> ok] @@
             BatchCommit(ms, cs, c, msg_doc_of(event, t),
                         chat_update_of(cs[c], event, t), ok)

\* ------------------------------------------------------------------- reads
\* The place of a provider timestamp in the order of strings.
TsRank(ts) == IF ts = "t1" THEN 1 ELSE 0

RECURSIVE SortByTimestamp(_)
\* An order_by on the provider's timestamp field.
SortByTimestamp(S) ==
    IF S = {} THEN <<>>
    ELSE LET d == CHOOSE x \in S : \A y \in S : TsRank(x.timestamp) <= TsRank(y.timestamp)
         IN  <<d>> \o SortByTimestamp(S \ {d})

RECURSIVE SortByStoredAt(_)
\* order_by("stored_at"): the documents in ascending stored_at order.
SortByStoredAt(S) ==
    IF S = {} THEN <<>>
    ELSE LET d == CHOOSE x \in S : \A y \in S : x.stored_at <= y.stored_at
         IN  <<d>> \o SortByStoredAt(S \ {d})

Ids(S) == {d.id : d \in S}

\* What identifies a stored version of a message: its id and its stored_at.
Keys(S) == {[id |-> d.id, at |-> d.stored_at] : d \in S}

\* A query without the where() on stored_at.
NewDocsWholeHistory(ms, cs, c) == IF ~cs[c].exists THEN {} ELSE ms[c]
\* The documents get_new_messages_only selects.
NewDocs(ms, cs, c) ==
    IF ~cs[c].exists THEN {}
    ELSE IF cs[c].last_processed_at # Unset
         THEN {d \in ms[c] : d.stored_at > cs[c].last_processed_at}
         ELSE ms[c]

\* One line "[date] sender: text" of get_new_messages_only.
NewLine(d) ==
    [date |-> Day(d.stored_at), sender |-> d.sender.attendee_name,
     text |-> IF d.text = "" THEN "[Fichier Joint]" ELSE d.text]

\* get_new_messages_only: the lines joined by newlines; <<>> is the empty
\* string. A store error (ok = FALSE) is swallowed and gives "" too.
get_new_messages_only(ms, cs, c, ok) ==
    IF ~ok THEN <<>>
    ELSE LET docs == SortByStoredAt(NewDocs(ms, cs, c))
         IN  [i \in DOMAIN docs |-> NewLine(docs[i])]

\* seven_days_ago = (now - timedelta(days=6)).replace(hour=0, minute=0, second=0)
WindowStart(t) == (Day(t) - WindowDays) * DayLen

\* A window read that also stops at the conversation's watermark.
WeeklyDocsAfterMark(ms, c, t) ==
    {d \in ms[c] : d.stored_at >= WindowStart(t)
                    /\ d.stored_at > chats[c].last_processed_at}
WeeklyDocs(ms, c, t) == {d \in ms[c] : d.stored_at >= WindowStart(t)}

\* One line "[time] sender: text" of get_weekly_context.
WeeklyLine(d) ==
    [date |-> d.stored_at, sender |-> d.sender.attendee_name,
     text |-> IF d.text = "" /\ d.attachments # <<>>
              THEN d.attachments[1].url ELSE d.text]

get_weekly_context(ms, c, t, ok) ==
    IF ~ok THEN <<>>
    ELSE LET docs == SortByStoredAt(WeeklyDocs(ms, c, t))
         IN  [i \in DOMAIN docs |-> WeeklyLine(docs[i])]

\* get_messages_from_today: the messages stored since the start of the day.
TodayDocs(ms, c, t) == {d \in ms[c] : d.stored_at >= Day(t) * DayLen}

get_messages_from_today(ms, c, t, ok) ==
    IF ~ok THEN <<>>
    ELSE LET docs == SortByStoredAt(TodayDocs(ms, c, t))
         IN  [i \in DOMAIN docs |-> WeeklyLine(docs[i])]

\* get_unprocessed_chats: ids of the documents with needs_summary == True.
get_unprocessed_chats(cs, ok) ==
    IF ~ok THEN <<>>
    ELSE SelectSeq(ChatOrder, LAMBDA c : cs[c].exists /\ cs[c].needs_summary)

\* An update() that clears the flag and leaves last_processed_at alone.
MarkKeepsWatermark(cs, c, t, ok) ==
    IF ok
    THEN [cs EXCEPT ![c] = Update(cs[c], [needs_summary |-> FALSE,
                                          ai_processed |-> TRUE])]
    ELSE cs
\* A mark that clears a watermark already set instead of moving it.
MarkClearsWatermark(cs, c, t, ok) ==
    IF ok
    THEN [cs EXCEPT ![c] = Update(cs[c],
             [needs_summary |-> FALSE, ai_processed |-> TRUE,
              last_processed_at |-> IF cs[c].last_processed_at = Unset
                                    THEN t ELSE Unset])]
    ELSE cs
\* A mark that leaves ai_processed as the last save wrote it.
MarkLeavesAiProcessed(cs, c, t, ok) ==
    IF ok
    THEN [cs EXCEPT ![c] = Update(cs[c], [needs_summary |-> FALSE,
                                          last_processed_at |-> t])]
    ELSE cs
\* mark_chat_as_processed: update() of the three fields; any error is swallowed.
mark_chat_as_processed(cs, c, t, ok) ==
    IF ok
    THEN [cs EXCEPT ![c] = Update(cs[c], [needs_summary |-> FALSE,
                                          ai_processed |-> TRUE,
                                          last_processed_at |-> t])]
    ELSE cs

\* ------------------------------------------------------- external services
\* GeminiService.generate_response under @retry(stop_after_attempt(3),
\* retry_if_exception_type(Exception), reraise=True): api[i] tells whether the
\* i-th call of the API succeeds.
\* run_config = self.default_config; run_config.system_instruction =
\* system_instruction: run_config is the service's config itself, so the
\* value returned is what default_config.system_instruction is after the call.
set_system_instruction(system_instruction) == system_instruction

generate_response(api) ==
    IF \E i \in 1..MaxAttempts : api[i]
    THEN [res |-> "ok",
          attempts |-> CHOOSE i \in 1..MaxAttempts :
                          api[i] /\ \A j \in 1..(i - 1) : ~api[j]]
    ELSE [res |-> "raise", attempts |-> MaxAttempts]

AppendOutcomes == {"ok", "http_transient", "http_permanent", "timeout", "error"}
Retried == {"http_transient", "http_permanent", "timeout"}

\* GoogleSheetsService.append_row under @retry(stop_after_attempt(3),
\* retry_if_exception_type((HttpError, TimeoutError)), reraise=False):
\* False when the service is not ready; an HttpError or TimeoutError is
\* retried, any other exception propagates at once, and after the third
\* failed attempt tenacity raises RetryError.
append_row(ready, api) ==
    IF ~ready THEN [res |-> "false", attempts |-> 0]
    ELSE IF \E i \in 1..MaxAttempts : api[i] \notin Retried
    THEN LET i == CHOOSE k \in 1..MaxAttempts :
                     api[k] \notin Retried /\ \A j \in 1..(k - 1) : api[j] \in Retried
         IN  [res |-> IF api[i] = "ok" THEN "ok" ELSE "raise", attempts |-> i]
    ELSE [res |-> "raise", attempts |-> MaxAttempts]

\* FinanceAnalyst.extract_transactions: json.loads of the cleaned answer,
\* returned as it is, and [] when it does not parse. kind is the JSON type of
\* the value returned, items what iterating over it yields: the elements of a
\* list, the keys of an object. tx1 and tx2 are transaction objects, 7 is a
\* number, and {tx1} is the answer that gives the one transaction without
\* the list around it.
FinanceAnswers == {"not json", "[]", "[tx1]", "[tx1, tx2]", "[7, tx1]", "{tx1}"}
Transactions == {"tx1", "tx2"}
\* An extraction that hands an answer it cannot parse on as a record.
extract_keeps_unparsed(answer) ==
    [kind |-> "list", items |-> <<answer>>]
extract_transactions(answer) ==
    CASE answer = "[tx1]" -> [kind |-> "list", items |-> <<"tx1">>]
      [] answer = "[tx1, tx2]" -> [kind |-> "list", items |-> <<"tx1", "tx2">>]
      [] answer = "[7, tx1]" -> [kind |-> "list", items |-> <<"7", "tx1">>]
      [] answer = "{tx1}" -> [kind |-> "object", items |-> <<"date">>]
      [] OTHER -> [kind |-> "list", items |-> <<>>]

\* The sales strategy (SalesAnalyst.analyze_conversation) and the founders
\* strategy (StrategyAnalyst.analyze_founders_chat) ask the AI service for a
\* narrative and return it; a failure of the service propagates.
analyze_conversation(api) == generate_response(api).res
analyze_founders_chat(api) == generate_response(api).res

\* Runs of the AI service and of the spreadsheet API the analysis run meets.
ApiOk == <<TRUE, TRUE, TRUE>>
ApiRuns == {ApiOk, <<FALSE, FALSE, TRUE>>, <<FALSE, FALSE, FALSE>>}
SheetOk == <<"ok", "ok", "ok">>
SheetRuns ==
    {SheetOk, <<"http_transient", "timeout", "ok">>,
     <<"http_transient", "http_transient", "http_transient">>,
     <<"http_permanent", "http_permanent", "http_permanent">>,
     <<"error", "ok", "ok">>}

\* The payloads delivered while analysis runs take place: those the webhook
\* stores, without attachments.
CyclePayloads ==
    {p \in Payloads : UnipileMessageEvent(p, DayLen).valid
                      /\ p.event = "message_received" /\ p.account_id = UNIPILE_ACCOUNT_ID
                      /\ p.chat_id \in {GeneralChat, FINANCE_GROUP_ID, VINCENT_CHAT_ID}
                      /\ p.attachments = <<>>}

\* receive_webhook's answer to a request: it is returned before the
\* background task runs; a dict is sent with FastAPI's default status, 200.
NoAnswer == [code |-> 0, status |-> ""]
AnswerBadRequest(body) ==
    IF body = Unparseable THEN [code |-> 400, status |-> "error_handled"]
    ELSE [code |-> 200, status |-> "received"]
Answer(body) ==
    IF body = Unparseable THEN [code |-> 200, status |-> "error_handled"]
    ELSE [code |-> 200, status |-> "received"]

\* What the last step did; ref holds the body of a webhook delivery and http
\* the answer the sender got.
Op(o, c, r) == [op |-> o, chat |-> c, res |-> r, ref |-> {}, http |-> NoAnswer]
WebOp(body, c, r) == [Op("webhook", c, r) EXCEPT !.ref = {body}, !.http = Answer(body)]

\* The step starts n deliveries, runs or weeks, and its call failed (bad) or not.
Spend(n, bad) ==
    /\ ops + n + (IF bad THEN 1 ELSE 0) <= MaxOps
    /\ ops' = ops + n + (IF bad THEN 1 ELSE 0)
    /\ faults' = IF bad THEN faults + 1 ELSE faults

Hand(h, c, keys, k) ==
    [h EXCEPT ![c] = [m \in MsgIds |->
        IF \E x \in keys : x.id = m
        THEN [run |-> k, at |-> (CHOOSE x \in keys : x.id = m).at]
        ELSE @[m]]]

\* -------------------------------------------------------------------- Init
Init ==
    /\ chats = [c \in ChatIds |-> NoChat]
    /\ msgs = [c \in ChatIds |-> {}]
    /\ now = DayLen
    /\ pc = "idle"
    /\ chat_ids = <<>>
    /\ cur = ""
    /\ history = <<>>
    /\ batch = {}
    /\ appendRes = "none"
    /\ txs = <<>>
    /\ sheetsReady = TRUE
    /\ cycles = 0
    /\ ops = 0
    /\ faults = 0
    /\ handed = [c \in ChatIds |-> [m \in MsgIds |-> [run |-> 0, at |-> Unset]]]
    /\ lastOp = Op("init", "", "")
    /\ default_config = NoInstruction

\* ----------------------------------------------------------------- webhook
\* main.process_webhook_event(payload), the background task of
\* receive_webhook: validation, account filter, event-kind filter, save.
\* if settings.UNIPILE_ACCOUNT_ID and event.account_id != settings.UNIPILE_ACCOUNT_ID
OtherAccount(event) ==
    UNIPILE_ACCOUNT_ID # "" /\ event.account_id # UNIPILE_ACCOUNT_ID

\* A filter that lets every kind of event through.
NoKindIgnored(event) == FALSE
\* if event.event not in ["message_received", "message_created"]
IgnoredKind(event) ==
    event.event \notin {"message_received", "message_created"}

process_webhook_event(p, att, ok) ==
    /\ ops < MaxOps
    /\ LET event == UnipileMessageEvent(p, now) IN
       IF ~event.valid
       THEN /\ lastOp' = WebOp(p, "", "malformed")
            /\ Spend(1, FALSE)
            /\ UNCHANGED <<chats, msgs, now>>
       ELSE IF OtherAccount(event)
       THEN /\ lastOp' = WebOp(p, event.chat_id, "skip_account")
            /\ Spend(1, FALSE)
            /\ UNCHANGED <<chats, msgs, now>>
       ELSE IF IgnoredKind(event)
       THEN /\ lastOp' = WebOp(p, event.chat_id, "skip_kind")
            /\ Spend(1, FALSE)
            /\ UNCHANGED <<chats, msgs, now>>
       ELSE LET r == save_message_event(msgs, chats, event, now, att, ok) IN
            /\ msgs' = r.msgs
            /\ chats' = r.chats
            /\ now' = now + 1
            /\ Spend(1, ~r.result)
            /\ lastOp' = WebOp(p, event.chat_id,
                                IF ~r.result
                                THEN (IF ok THEN "failed_bucket" ELSE "failed")
                                ELSE IF event.message_id \in Ids(msgs[event.chat_id])
                                THEN "saved_again" ELSE "saved")
    /\ UNCHANGED <<cycleVars, handed>>
    /\ UNCHANGED default_config

\* main.receive_webhook: a body request.json() cannot parse is answered in
\* the except branch; any other body is handed to the background task
\* process_webhook_event and answered at once.
receive_webhook(body, att, ok) ==
    IF body = Unparseable
    THEN /\ ops < MaxOps
         /\ lastOp' = WebOp(body, "", "unparseable")
         /\ Spend(1, FALSE)
         /\ UNCHANGED <<chats, msgs, now, cycleVars, handed, default_config>>
    ELSE process_webhook_event(body, att, ok)

\* A week goes by between two runs of the analysis.
WeekPasses ==
    /\ pc = "idle"
    /\ ops < MaxOps
    /\ ops' = ops + 1
    /\ now' = now + (WindowDays + 1) * DayLen
    /\ UNCHANGED <<storeVars, cycleVars, handed, faults, lastOp>>
    /\ UNCHANGED default_config

\* ------------------------------------------------------- daily_report.main
Excluded(c) == c = VINCENT_CHAT_ID \/ c = MY_CHAT_ID

\* Service construction fails (GeminiService without API key): main returns.
CycleInitFails ==
    /\ pc = "idle" /\ ops < MaxOps
    /\ cycles' = cycles + 1
    /\ pc' = "done"
    /\ lastOp' = Op("init_failed", "", "raise")
    /\ Spend(1, TRUE)
    /\ UNCHANGED <<storeVars, now, chat_ids, cur, history, batch, appendRes, txs,
                   sheetsReady, handed>>
    /\ UNCHANGED default_config

\* Services built (the sheets service may come up without a connection),
\* then chat_ids = get_unprocessed_chats().
CycleStart(ready, ok) ==
    /\ pc = "idle" /\ ops < MaxOps
    /\ cycles' = cycles + 1
    /\ sheetsReady' = ready
    /\ chat_ids' = get_unprocessed_chats(chats, ok)
    /\ pc' = "sales"
    /\ lastOp' = Op("unprocessed", "", IF ok THEN "ok" ELSE "error")
    /\ Spend(1, ~ready \/ ~ok)
    /\ UNCHANGED <<storeVars, now, cur, history, batch, appendRes, txs, handed>>
    /\ default_config' = NoInstruction

\* for chat_id in chat_ids: the founder chat and the operator's chat are skipped.
SalesSkip ==
    /\ pc = "sales" /\ chat_ids # <<>> /\ Excluded(Head(chat_ids))
    /\ chat_ids' = Tail(chat_ids)
    /\ UNCHANGED <<storeVars, now, pc, cur, history, batch, appendRes, txs,
                   sheetsReady, cycles, ops, faults, handed, lastOp>>
    /\ UNCHANGED default_config

\* history = get_weekly_context(chat_id)
SalesRead(ok) ==
    /\ pc = "sales" /\ chat_ids # <<>> /\ ~Excluded(Head(chat_ids))
    /\ LET c == Head(chat_ids)
           h == get_weekly_context(msgs, c, now, ok)
       IN  /\ cur' = c
           /\ chat_ids' = Tail(chat_ids)
           /\ history' = h
           /\ batch' = IF ok THEN Keys(WeeklyDocs(msgs, c, now)) ELSE {}
           /\ pc' = IF h = <<>> THEN "sales_mark" ELSE "sales_ai"
           /\ lastOp' = Op("sales_read", c, IF ok THEN "ok" ELSE "error")
    /\ appendRes' = "none"
    /\ Spend(0, ~ok)
    /\ UNCHANGED <<storeVars, now, txs, sheetsReady, cycles, handed>>
    /\ UNCHANGED default_config

\* analysis = await sales_agent.analyze_conversation(chat_id, history)
SalesAnalyze(api) ==
    /\ pc = "sales_ai"
    /\ LET r == analyze_conversation(api) IN
       /\ pc' = IF r = "ok" THEN "sales_append" ELSE "aborted"
       /\ lastOp' = Op("sales_analyze", cur, r)
    /\ handed' = Hand(handed, cur, batch, cycles)
    /\ Spend(0, analyze_conversation(api) # "ok")
    /\ UNCHANGED <<storeVars, now, chat_ids, cur, history, batch, appendRes, txs,
                   sheetsReady, cycles>>
    /\ default_config' = set_system_instruction("SALES")

\* success = await sheets.append_row(...); if success: mark, else log.
SalesAppend(api) ==
    /\ pc = "sales_append"
    /\ LET r == append_row(sheetsReady, api) IN
       /\ appendRes' = r.res
       /\ pc' = CASE r.res = "ok" -> "sales_mark"
                  [] r.res = "false" -> "sales"
                  [] OTHER -> "aborted"
       /\ lastOp' = Op("sales_append", cur, r.res)
    /\ Spend(0, append_row(sheetsReady, api).res = "raise")
    /\ UNCHANGED <<storeVars, now, chat_ids, cur, history, batch, txs,
                   sheetsReady, cycles, handed>>
    /\ UNCHANGED default_config

\* mark_chat_as_processed(chat_id), after the append or for an empty history.
SalesMark(ok) ==
    /\ pc = "sales_mark"
    /\ chats' = mark_chat_as_processed(chats, cur, now, ok)
    /\ now' = now + 1
    /\ pc' = "sales"
    /\ lastOp' = Op("sales_mark", cur, IF ok THEN "ok" ELSE "error")
    /\ Spend(0, ~ok)
    /\ UNCHANGED <<msgs, chat_ids, cur, history, batch, appendRes, txs,
                   sheetsReady, cycles, handed>>
    /\ UNCHANGED default_config

\* vincent_history = get_messages_from_today(VINCENT_CHAT_ID)
StrategyRead(ok) ==
    /\ pc = "sales" /\ chat_ids = <<>>
    /\ LET h == get_messages_from_today(msgs, VINCENT_CHAT_ID, now, ok) IN
       /\ history' = h
       /\ pc' = IF h = <<>> THEN "finance" ELSE "strat_ai"
    /\ cur' = VINCENT_CHAT_ID
    /\ batch' = IF ok THEN Keys(TodayDocs(msgs, VINCENT_CHAT_ID, now)) ELSE {}
    /\ appendRes' = "none"
    /\ lastOp' = Op("strat_read", VINCENT_CHAT_ID, IF ok THEN "ok" ELSE "error")
    /\ Spend(0, ~ok)
    /\ UNCHANGED <<storeVars, now, chat_ids, txs, sheetsReady, cycles, handed>>
    /\ UNCHANGED default_config

\* strategy_report = await strategy_agent.analyze_founders_chat(vincent_history)
StrategyAnalyze(api) ==
    /\ pc = "strat_ai"
    /\ LET r == analyze_founders_chat(api) IN
       /\ pc' = IF r = "ok" THEN "strat_append" ELSE "aborted"
       /\ lastOp' = Op("strat_analyze", cur, r)
    /\ handed' = Hand(handed, cur, batch, cycles)
    /\ Spend(0, analyze_founders_chat(api) # "ok")
    /\ UNCHANGED <<storeVars, now, chat_ids, cur, history, batch, appendRes, txs,
                   sheetsReady, cycles>>
    /\ default_config' = set_system_instruction("STRATEGY")

\* await sheets.append_row(...): the value returned is not looked at.
StrategyAppend(api) ==
    /\ pc = "strat_append"
    /\ LET r == append_row(sheetsReady, api) IN
       /\ appendRes' = r.res
       /\ pc' = IF r.res = "raise" THEN "aborted" ELSE "strat_mark"
       /\ lastOp' = Op("strat_append", cur, r.res)
    /\ Spend(0, append_row(sheetsReady, api).res = "raise")
    /\ UNCHANGED <<storeVars, now, chat_ids, cur, history, batch, txs,
                   sheetsReady, cycles, handed>>
    /\ UNCHANGED default_config

\* mark_chat_as_processed(VINCENT_CHAT_ID)
StrategyMark(ok) ==
    /\ pc = "strat_mark"
    /\ chats' = mark_chat_as_processed(chats, VINCENT_CHAT_ID, now, ok)
    /\ now' = now + 1
    /\ pc' = "finance"
    /\ lastOp' = Op("strat_mark", VINCENT_CHAT_ID, IF ok THEN "ok" ELSE "error")
    /\ Spend(0, ~ok)
    /\ UNCHANGED <<msgs, chat_ids, cur, history, batch, appendRes, txs,
                   sheetsReady, cycles, handed>>
    /\ UNCHANGED default_config

\* finance_history = get_new_messages_only(FINANCE_GROUP_ID)
\* A read that moves the watermark to the moment it is made.
FinanceReadConsumes(ok) ==
    /\ pc = "finance"
    /\ LET h == get_new_messages_only(msgs, chats, FINANCE_GROUP_ID, ok) IN
       /\ history' = h
       /\ pc' = IF h = <<>> THEN "done" ELSE "fin_ai"
    /\ cur' = FINANCE_GROUP_ID
    /\ batch' = IF ok THEN Keys(NewDocs(msgs, chats, FINANCE_GROUP_ID)) ELSE {}
    /\ appendRes' = "none"
    /\ lastOp' = Op("fin_read", FINANCE_GROUP_ID, IF ok THEN "ok" ELSE "error")
    /\ Spend(0, ~ok)
    /\ chats' = mark_chat_as_processed(chats, FINANCE_GROUP_ID, now, ok)
    /\ UNCHANGED <<msgs, now, chat_ids, txs, sheetsReady, cycles, handed>>
    /\ UNCHANGED default_config
FinanceRead(ok) ==
    /\ pc = "finance"
    /\ LET h == get_new_messages_only(msgs, chats, FINANCE_GROUP_ID, ok) IN
       /\ history' = h
       /\ pc' = IF h = <<>> THEN "done" ELSE "fin_ai"
    /\ cur' = FINANCE_GROUP_ID
    /\ batch' = IF ok THEN Keys(NewDocs(msgs, chats, FINANCE_GROUP_ID)) ELSE {}
    /\ appendRes' = "none"
    /\ lastOp' = Op("fin_read", FINANCE_GROUP_ID, IF ok THEN "ok" ELSE "error")
    /\ Spend(0, ~ok)
    /\ UNCHANGED <<storeVars, now, chat_ids, txs, sheetsReady, cycles, handed>>
    /\ UNCHANGED default_config

\* transactions = await finance_agent.extract_transactions(finance_history),
\* up to the first append_row: when the first item the loop takes is no
\* object, tx.get raises AttributeError and the exception leaves main.
FinanceExtract(api, answer) ==
    /\ pc = "fin_ai"
    /\ LET r == generate_response(api).res
           t == extract_transactions(answer)
           bad == r = "ok" /\ t.items # <<>> /\ Head(t.items) \notin Transactions
       IN  /\ txs' = IF r = "ok" /\ ~bad THEN t.items ELSE txs
           /\ pc' = IF r # "ok" \/ bad THEN "aborted"
                    ELSE IF t.items # <<>> THEN "fin_append" ELSE "fin_mark"
           /\ lastOp' = [Op("fin_extract", cur, IF bad THEN "bad_record" ELSE r) EXCEPT
                            !.ref = IF r = "ok"
                                    THEN {[answer |-> answer, returned |-> t]}
                                    ELSE {}]
    /\ handed' = Hand(handed, cur, batch, cycles)
    /\ Spend(0, generate_response(api).res # "ok")
    /\ UNCHANGED <<storeVars, now, chat_ids, cur, history, batch, appendRes,
                   sheetsReady, cycles>>
    /\ default_config' = set_system_instruction("FINANCE")

\* for tx in transactions: await sheets.append_row(..., values=[tx.get("date"),
\* ...]): tx.get raises AttributeError on an item that is no object, before
\* append_row is called, and the exception leaves main.
FinanceAppend(api) ==
    /\ pc = "fin_append"
    /\ LET r == IF Head(txs) \in Transactions
                THEN append_row(sheetsReady, api)
                ELSE [res |-> "bad_record", attempts |-> 0]
           raised == r.res \in {"raise", "bad_record"}
       IN
       /\ appendRes' = IF r.res = "bad_record" THEN appendRes ELSE r.res
       /\ txs' = IF raised THEN txs ELSE Tail(txs)
       /\ pc' = IF raised THEN "aborted"
                ELSE IF Tail(txs) = <<>> THEN "fin_mark" ELSE "fin_append"
       /\ lastOp' = Op("fin_append", cur, r.res)
       /\ Spend(0, r.res = "raise")
    /\ UNCHANGED <<storeVars, now, chat_ids, cur, history, batch,
                   sheetsReady, cycles, handed>>
    /\ UNCHANGED default_config

\* mark_chat_as_processed(FINANCE_GROUP_ID)
FinanceMark(ok) ==
    /\ pc = "fin_mark"
    /\ chats' = mark_chat_as_processed(chats, FINANCE_GROUP_ID, now, ok)
    /\ now' = now + 1
    /\ pc' = "done"
    /\ lastOp' = Op("fin_mark", FINANCE_GROUP_ID, IF ok THEN "ok" ELSE "error")
    /\ Spend(0, ~ok)
    /\ UNCHANGED <<msgs, chat_ids, cur, history, batch, appendRes, txs,
                   sheetsReady, cycles, handed>>
    /\ UNCHANGED default_config

\* main returns, or an exception left it.
CycleEnd ==
    /\ pc \in {"done", "aborted"}
    /\ pc' = "idle"
    /\ chat_ids' = <<>>
    /\ cur' = ""
    /\ history' = <<>>
    /\ batch' = {}
    /\ appendRes' = "none"
    /\ txs' = <<>>
    /\ sheetsReady' = TRUE
    /\ lastOp' = Op("end", "", pc)
    /\ UNCHANGED <<storeVars, now, cycles, ops, handed, faults>>
    /\ default_config' = NoInstruction

\* Ingestion and the analysis run interleave; every external call and every
\* store call may fail.
Next ==
    \/ \E p \in CyclePayloads, ok \in BOOLEAN : process_webhook_event(p, "kept", ok)
    \/ WeekPasses
    \/ CycleInitFails
    \/ \E ready \in BOOLEAN, ok \in BOOLEAN : CycleStart(ready, ok)
    \/ SalesSkip
    \/ \E ok \in BOOLEAN : SalesRead(ok)
    \/ \E api \in ApiRuns : SalesAnalyze(api)
    \/ \E api \in SheetRuns : SalesAppend(api)
    \/ \E ok \in BOOLEAN : SalesMark(ok)
    \/ \E ok \in BOOLEAN : StrategyRead(ok)
    \/ \E api \in ApiRuns : StrategyAnalyze(api)
    \/ \E api \in SheetRuns : StrategyAppend(api)
    \/ \E ok \in BOOLEAN : StrategyMark(ok)
    \/ \E ok \in BOOLEAN : FinanceRead(ok)
    \/ \E api \in ApiRuns, answer \in FinanceAnswers : FinanceExtract(api, answer)
    \/ \E api \in SheetRuns : FinanceAppend(api)
    \/ \E ok \in BOOLEAN : FinanceMark(ok)
    \/ CycleEnd

Spec == Init /\ [][Next]_vars

\* The webhook alone: every payload, every outcome of the attachment
\* re-hosting and of the batch commit.
AttOutcomesAll == {"rehosted", "kept", "bucket_error"}

NextIngest ==
    \E body \in Bodies, att \in AttOutcomesAll, ok \in BOOLEAN :
        receive_webhook(body, att, ok)

SpecIngest == Init /\ [][NextIngest]_vars

\* ================================================================== claims
\* The conversation fields idempotence is about.
ConvView(chat) ==
    <<chat.participants_ids, chat.participants_names, chat.last_message_preview>>

\* The messages of chat c a read has returned to the analysis run: those
\* handed to a strategy and those of the batch the run is holding.
Seen(c) ==
    {m \in MsgIds : handed[c][m].run # 0}
        \cup (IF cur = c THEN {k.id : k \in batch} ELSE {})

Saved == {"saved", "saved_again"}
MarkOps == {"sales_mark", "strat_mark", "fin_mark"}

\* C1: when a payload that was just ingested is ingested again, the second
\* save succeeds as a re-save, the chat holds as many message documents as
\* before and exactly one for the payload's message id, and participants_ids,
\* participants_names and last_message_preview are what the first ingestion
\* left; and no step leaves two message documents with one id in a chat.
C1_IdempotentIngestion ==
    [][ /\ \A c \in ChatIds : \A d1, d2 \in msgs'[c] : d1.id = d2.id => d1 = d2
        /\ ( /\ lastOp.op = "webhook" /\ lastOp.res \in Saved
             /\ lastOp'.op = "webhook" /\ lastOp'.res \in Saved
             /\ lastOp'.ref = lastOp.ref )
           => LET c == lastOp.chat IN
              /\ lastOp'.res = "saved_again"
              /\ Cardinality(msgs'[c]) = Cardinality(msgs[c])
              /\ Ids(msgs'[c]) = Ids(msgs[c])
              /\ ConvView(chats'[c]) = ConvView(chats[c]) ]_vars

\* C1 witness: a payload carrying an attachment has been ingested twice in a
\* row into a chat that holds another message, and the chat holds one
\* document for each message id.
C1_Witness ==
    /\ lastOp.op = "webhook" /\ lastOp.res = "saved_again"
    /\ \E p \in lastOp.ref : p.attachments # <<>>
    /\ Cardinality(msgs[lastOp.chat]) = 2
    /\ Ids(msgs[lastOp.chat]) = MsgIds

\* C2: right after a run without any failed call has marked a conversation for
\* which it had read a non-empty batch, every message of that conversation
\* with stored_at <= last_processed_at was part of a text a read returned.
C2_NoStoredMessageLost ==
    \A c \in ChatIds : \A d \in msgs[c] :
        ( /\ faults = 0
          /\ lastOp.op \in MarkOps /\ lastOp.chat = c /\ lastOp.res = "ok"
          /\ batch # {}
          /\ ~chats[c].needs_summary
          /\ d.stored_at <= chats[c].last_processed_at )
        => d.id \in Seen(c)

\* C3: mark_chat_as_processed does not clear the flag and set the watermark
\* of a conversation whose spreadsheet append returned False.
C3_MarkOnlyAfterAppend ==
    (lastOp.op \in MarkOps /\ lastOp.chat = cur /\ lastOp.res = "ok")
        => appendRes # "false"

\* C4: a successful save leaves needs_summary true, and needs_summary goes
\* from true to false only in a mark_chat_as_processed of that conversation
\* at the end of a completed cycle (empty batch, or analysed and persisted).
C4_FlagInvariant ==
    [][ /\ \A c \in ChatIds :
              (chats[c].needs_summary /\ ~chats'[c].needs_summary)
              => /\ lastOp'.op \in MarkOps /\ lastOp'.chat = c
                 /\ \/ batch = {}
                    \/ appendRes = "ok"
                    \/ (pc = "fin_mark" /\ appendRes = "none")
        /\ (lastOp'.op = "webhook" /\ lastOp'.res \in Saved)
              => chats'[lastOp'.chat].needs_summary ]_vars

\* C5: the message write and the conversation update are applied together or
\* not at all: a chat holds message documents exactly when its conversation
\* document exists, the conversation's updated_at is the stored_at of its
\* newest message, and its flag is set unless a later mark cleared it.
C5_AtomicWrite ==
    \A c \in ChatIds :
        /\ chats[c].exists <=> msgs[c] # {}
        /\ \A d \in msgs[c] : d.stored_at <= chats[c].updated_at
        /\ chats[c].exists => \E d \in msgs[c] : d.stored_at = chats[c].updated_at
        /\ chats[c].exists =>
              (chats[c].needs_summary
                  \/ chats[c].last_processed_at > chats[c].updated_at)

\* C5 witness: a save has failed on a store that already holds messages.
C5_Witness ==
    /\ lastOp.op = "webhook" /\ lastOp.res = "failed"
    /\ \E c \in ChatIds : lastOp.chat = c /\ msgs[c] # {}

\* C6: a stored message document is never changed and never deleted.
C6_MessageImmutable ==
    [][\A c \in ChatIds : \A d \in msgs[c] : d \in msgs'[c]]_vars

\* C7: while no call fails, a stored message that a run handed to a strategy
\* is not handed to a strategy again by a later run.
C7_AnalysedOnce ==
    [][\A c \in ChatIds : \A m \in MsgIds :
          ( /\ faults' = 0
            /\ handed'[c][m].run # handed[c][m].run
            /\ handed'[c][m].at = handed[c][m].at )
          => handed[c][m].run = 0]_vars

\* C8: when the spreadsheet append of one conversation of the sales loop
\* raises and nothing else has failed, the run does not end while other
\* flagged conversations of the loop are still to be processed.
C8_FailureIsolation ==
    ~( /\ pc = "aborted"
       /\ lastOp.op = "sales_append" /\ lastOp.res = "raise"
       /\ faults = 1
       /\ \E i \in DOMAIN chat_ids : ~Excluded(chat_ids[i]) )

\* C9: the sales loop never marks as processed, after analysing its batch,
\* the operator's chat, the founder chat or the finance group.
C9_ExclusionSet ==
    (lastOp.op = "sales_mark" /\ lastOp.res = "ok" /\ batch # {} /\ faults = 0)
        => lastOp.chat \notin {MY_CHAT_ID, VINCENT_CHAT_ID, FINANCE_GROUP_ID}

\* C10: get_new_messages_only returns one line for each message of the whole
\* history when last_processed_at is unset, one for each message with
\* stored_at > last_processed_at when it is set, and the empty string when no
\* message qualifies; the finance part's history is that text.
C10_NewMessagesOnly ==
    /\ \A c \in ChatIds :
          LET text == get_new_messages_only(msgs, chats, c, TRUE)
              want == IF chats[c].last_processed_at = Unset THEN msgs[c]
                      ELSE {d \in msgs[c] : d.stored_at > chats[c].last_processed_at}
          IN  /\ Len(text) = Cardinality(want)
              /\ Range(text) = {NewLine(d) : d \in want}
              /\ want = {} => text = <<>>
    /\ lastOp = Op("fin_read", FINANCE_GROUP_ID, "ok")
          => history = get_new_messages_only(msgs, chats, FINANCE_GROUP_ID, TRUE)

\* C10 witness: the finance part has read a conversation whose watermark is
\* set and got the newer message but not the older one.
C10_Witness ==
    /\ lastOp = Op("fin_read", FINANCE_GROUP_ID, "ok")
    /\ chats[FINANCE_GROUP_ID].last_processed_at # Unset
    /\ Len(history) = 1
    /\ Cardinality(msgs[FINANCE_GROUP_ID]) = 2

\* C11: right after a mark_chat_as_processed that succeeded,
\* get_new_messages_only returns the empty string for that conversation; once
\* the watermark is set the returned text goes from empty to non-empty only in
\* a step of the webhook that writes a message of that conversation with
\* stored_at > last_processed_at; and no message with stored_at <=
\* last_processed_at has a line in the returned text.
C11_MonotonicWatermark ==
    [][\A c \in ChatIds :
          LET before == get_new_messages_only(msgs, chats, c, TRUE)
              after == get_new_messages_only(msgs', chats', c, TRUE)
              mark == chats'[c].last_processed_at
          IN  /\ (lastOp'.op \in MarkOps /\ lastOp'.chat = c /\ lastOp'.res = "ok")
                    => (mark # Unset /\ after = <<>>)
              /\ (chats[c].last_processed_at # Unset /\ before = <<>> /\ after # <<>>)
                    => /\ lastOp'.op = "webhook" /\ lastOp'.chat = c
                       /\ \E d \in msgs'[c] : d \notin msgs[c] /\ d.stored_at > mark
              /\ \A d \in msgs'[c] :
                    (mark # Unset /\ d.stored_at <= mark)
                    => NewLine(d) \notin Range(after) ]_vars

\* C11 witness: after a mark, a later run reads the conversation with
\* get_new_messages_only and gets the empty string although it holds messages.
C11_Witness ==
    /\ lastOp = Op("fin_read", FINANCE_GROUP_ID, "ok")
    /\ history = <<>>
    /\ msgs[FINANCE_GROUP_ID] # {}
    /\ chats[FINANCE_GROUP_ID].last_processed_at # Unset
    /\ cycles > 1

\* C12: in the text of get_new_messages_only and in the text of
\* get_weekly_context, the line of a message never comes after the line of a
\* message stored later, whatever the provider timestamps of the messages.
C12_LinesInStoredOrder ==
    \A c \in ChatIds :
        LET new == get_new_messages_only(msgs, chats, c, TRUE)
            week == get_weekly_context(msgs, c, now, TRUE)
        IN  /\ \A i, j \in DOMAIN new : \A d1, d2 \in msgs[c] :
                  (i < j /\ NewLine(d1) = new[i] /\ NewLine(d2) = new[j])
                  => d1.stored_at <= d2.stored_at
            /\ \A i, j \in DOMAIN week : \A d1, d2 \in msgs[c] :
                  (i < j /\ WeeklyLine(d1) = week[i] /\ WeeklyLine(d2) = week[j])
                  => d1.stored_at <= d2.stored_at

\* C12 witness: a run has read two lines of a conversation whose message
\* stored first carries the later provider timestamp.
C12_Witness ==
    /\ lastOp.op \in {"sales_read", "fin_read"} /\ lastOp.res = "ok"
    /\ Len(history) = 2
    /\ \E d1, d2 \in msgs[lastOp.chat] :
          /\ d1.stored_at < d2.stored_at
          /\ TsRank(d1.timestamp) > TsRank(d2.timestamp)

\* C13: while no call fails and the messages of a conversation outside the
\* exclusion set, all of MsgIds, are within the reading window, each of them
\* is either in a flagged conversation (a coming run will read it) or was
\* part of a batch handed to the strategy.
C13_EventualAnalysis ==
    \A c \in ChatIds \ {MY_CHAT_ID, VINCENT_CHAT_ID, FINANCE_GROUP_ID} :
        ( /\ faults = 0
          /\ Ids(msgs[c]) = MsgIds
          /\ \A e \in msgs[c] : e.stored_at >= WindowStart(now) )
        => \A d \in msgs[c] :
              chats[c].needs_summary \/ handed[c][d.id].run # 0

ReadOps == {"sales_read", "strat_read", "fin_read"}

\* C14: the step that follows a failed read of a conversation's messages
\* leaves that conversation's needs_summary set and its last_processed_at
\* unchanged (the run does not mark it as processed).
C14_ReadFailureSurfaced ==
    [][\A c \in ChatIds :
          (lastOp.op \in ReadOps /\ lastOp.res = "error" /\ lastOp.chat = c)
          => /\ chats[c].needs_summary => chats'[c].needs_summary
             /\ chats'[c].last_processed_at = chats[c].last_processed_at ]_vars

MarkPcs == {"sales_mark", "strat_mark", "fin_mark"}

\* C15: when a read that succeeded returned the empty text for a flagged
\* conversation, the run's next step for it is mark_chat_as_processed, in the
\* sales loop, the founder part and the finance part alike.
C15_EmptyBatchDone ==
    ( /\ lastOp.op \in ReadOps /\ lastOp.res = "ok"
      /\ history = <<>>
      /\ chats[lastOp.chat].exists /\ chats[lastOp.chat].needs_summary )
    => pc \in MarkPcs

WebOutcomes ==
    {"unparseable", "malformed", "skip_account", "skip_kind", "failed",
     "failed_bucket", "saved", "saved_again"}

\* C16: every request is answered 200 with a status body, "error_handled" for
\* a body that does not parse and "received" for every other body whatever
\* normalisation and storage do with it, and the background task always ends
\* in one of its handled outcomes.
C16_FailSafeAck ==
    lastOp.op = "webhook"
    => /\ lastOp.http.code = 200
       /\ lastOp.http.status =
             (IF lastOp.res = "unparseable" THEN "error_handled" ELSE "received")
       /\ lastOp.res \in WebOutcomes

\* C16 witness: a request whose save failed on a message with attachments
\* was answered 200 "received".
C16_Witness ==
    /\ lastOp.op = "webhook" /\ lastOp.res = "failed"
    /\ \E b \in lastOp.ref : b \in Payloads /\ b.attachments # <<>>
    /\ lastOp.http = [code |-> 200, status |-> "received"]

\* C17: a save whose commit would succeed stores the message whatever the
\* attachment step does: when storage.bucket() raises, the chat still holds a
\* document for the payload's message id.
C17_BestEffortAttachments ==
    (lastOp.op = "webhook" /\ lastOp.res = "failed_bucket")
    => \A b \in lastOp.ref : b.id \in Ids(msgs[lastOp.chat])

IdentityFields == {"event", "account_id", "id", "chat_id"}

\* C18: a delivered payload that lacks one of event, account_id, id, chat_id
\* is rejected by normalisation and the step leaves the store as it was; a
\* payload that has the four is not rejected.
C18_MalformedEvents ==
    [][lastOp'.op = "webhook"
       => \A b \in lastOp'.ref \ {Unparseable, NotAMapping} :
             IF \E f \in IdentityFields : b[f] = Absent
             THEN lastOp'.res = "malformed" /\ chats' = chats /\ msgs' = msgs
             ELSE lastOp'.res # "malformed"]_vars

\* C19: a delivered payload that has the four identity fields and an absent
\* or empty timestamp is not rejected by normalisation.
C19_TimestampDefault ==
    lastOp.op = "webhook"
    => \A b \in lastOp.ref \ {Unparseable, NotAMapping} :
          ( /\ \A f \in IdentityFields : b[f] # Absent
            /\ b.timestamp \in {Absent, ""} )
          => lastOp.res # "malformed"

\* The first non-empty value among text, message and body, else "".
FirstNonEmpty(b) ==
    IF b.text \notin {Absent, Null, ""} THEN b.text
    ELSE IF b.message \notin {Absent, Null, ""} THEN b.message
    ELSE IF b.body \notin {Absent, Null, ""} THEN b.body
    ELSE ""

\* C20: a delivered payload that has its identity fields and a timestamp is
\* not rejected whatever its text, message and body keys carry, and when it is
\* stored its text is the first non-empty value among text, message and body,
\* or the empty string.
C20_TextResolution ==
    lastOp.op = "webhook"
    => \A b \in lastOp.ref \ {Unparseable, NotAMapping} :
          (b.timestamp # Absent /\ \A f \in IdentityFields : b[f] # Absent)
          => /\ lastOp.res # "malformed"
             /\ lastOp.res \in Saved
                   => \E d \in msgs[lastOp.chat] :
                         d.id = b.id /\ d.text = FirstNonEmpty(b)

\* The same payload with its participants written as objects.
AsObjects(b) == [b EXCEPT !.attendees_shape = "objects"]

\* C21: a delivered payload whose participant list is written as bare
\* identifier strings is accepted by normalisation whenever the same payload
\* with the participants written as objects is, and when it is stored the
\* conversation's group flag is the one the object form yields.
C21_ParticipantShapes ==
    lastOp.op = "webhook"
    => \A b \in lastOp.ref \ {Unparseable, NotAMapping} :
          (b.attendees_shape = "strings" /\ UnipileMessageEvent(AsObjects(b), now).valid)
          => /\ lastOp.res # "malformed"
             /\ lastOp.res \in Saved
                   => chats[lastOp.chat].is_group
                         = is_group_of(UnipileMessageEvent(AsObjects(b), now))

\* ------------------------------------------------------------------ router
\* AgentRouter.__init__: the role directories (the keys of the dicts).
ADMINS == {"33768389721", "15166422399"}
EMPLOYEES ==
    {"16463922789", "13478245247", "13476955236", "13472184391",
     "19292267037", "19178346848", "19292823114", "16468944629"}
PARTNERS == {"17737708956", "14125671447"}
IGNORED_NUMBERS ==
    {"33617785411", "33677798793", "21652699220", "21620345271", "33651682434"}

\* Routers: the one __init__ builds, and the ones whose ignored set has been
\* extended with numbers that are also in a role directory.
AlsoIgnored == {"33768389721", "16463922789", "17737708956"}
AgentRouters ==
    { [ADMINS |-> ADMINS, EMPLOYEES |-> EMPLOYEES, PARTNERS |-> PARTNERS,
       IGNORED_NUMBERS |-> IGNORED_NUMBERS \cup extra] : extra \in SUBSET AlsoIgnored }

\* Senders: one of each directory, the doubly listed ones, the empty string
\* and a stranger.
SenderIds ==
    AlsoIgnored \cup {"15166422399", "13478245247", "14125671447", "33617785411",
                      "", "49000000000"}

\* _get_system_prompt: the persona chosen, by the first directory holding the sender.
get_system_prompt(self, sender_id) ==
    IF sender_id \in self.ADMINS THEN "ADMIN"
    ELSE IF sender_id \in self.EMPLOYEES THEN "EMPLOYEE"
    ELSE IF sender_id \in self.PARTNERS THEN "PARTNER"
    ELSE "EXTERNAL"

\* A router that looks the sender up in the role directories before the
\* ignored set.
RoleBeforeIgnored(self, sender_id) ==
    IF get_system_prompt(self, sender_id) # "EXTERNAL"
    THEN get_system_prompt(self, sender_id)
    ELSE IF sender_id \in self.IGNORED_NUMBERS THEN "IGNORED" ELSE "EXTERNAL"
\* route_and_reply, steps 0 and 2: the ignored set is looked up first, and
\* only a sender outside it gets a persona.
Category(self, sender_id) ==
    IF sender_id \in self.IGNORED_NUMBERS THEN "IGNORED"
    ELSE get_system_prompt(self, sender_id)

\* route_and_reply: None for an ignored sender, before the history is read
\* and the AI service is called; otherwise the reply generate_response gives
\* for the chosen persona (reading the history changes nothing in the store).
route_and_reply(self, sender_id, api) ==
    LET category == Category(self, sender_id)
        r == generate_response(api)
        call ==
            IF category = "IGNORED"
            THEN [sender_id |-> sender_id, self |-> self, category |-> category,
                  ai_attempts |-> 0]
            ELSE [sender_id |-> sender_id, self |-> self, category |-> category,
                  ai_attempts |-> r.attempts]
    IN  /\ lastOp' = [Op("route", "",
                         IF category = "IGNORED" THEN "none" ELSE r.res)
                      EXCEPT !.ref = {call}]
        /\ UNCHANGED <<chats, msgs, now, pc, chat_ids, cur, history, batch,
                       appendRes, txs, sheetsReady, cycles, ops, faults, handed>>
    /\ default_config' = IF Category(self, sender_id) = "IGNORED"
                         THEN default_config
                         ELSE set_system_instruction(get_system_prompt(self, sender_id))

NextRouter ==
    \E self \in AgentRouters, sender_id \in SenderIds, api \in ApiRuns :
        route_and_reply(self, sender_id, api)

SpecRouter == Init /\ [][NextRouter]_vars

Categories == {"IGNORED", "ADMIN", "EMPLOYEE", "PARTNER", "EXTERNAL"}

\* C22: every routing yields one of the five categories; a sender in the
\* ignored set yields IGNORED whatever else lists it, with no reply and no
\* call of the AI service; a sender in no set yields EXTERNAL; and two
\* routings of the same sender by the same router yield the same category.
C22_RouterTotalPrecedence ==
    [][lastOp'.op = "route"
       => \A q \in lastOp'.ref :
             /\ q.category \in Categories
             /\ q.sender_id \in q.self.IGNORED_NUMBERS
                   => /\ q.category = "IGNORED"
                      /\ lastOp'.res = "none" /\ q.ai_attempts = 0
             /\ q.sender_id \notin (q.self.IGNORED_NUMBERS \cup q.self.ADMINS
                                      \cup q.self.EMPLOYEES \cup q.self.PARTNERS)
                   => q.category = "EXTERNAL"
             /\ lastOp.op = "route"
                   => \A o \in lastOp.ref :
                         (o.sender_id = q.sender_id /\ o.self = q.self)
                         => o.category = q.category]_vars

\* C22 witness: a sender listed as admin and as ignored was routed as IGNORED
\* without a reply.
C22_Witness ==
    /\ lastOp.op = "route" /\ lastOp.res = "none"
    /\ \E q \in lastOp.ref :
          /\ q.sender_id \in q.self.ADMINS \cap q.self.IGNORED_NUMBERS
          /\ q.category = "IGNORED" /\ q.ai_attempts = 0

\* C23: a stored delivery leaves the conversation's is_group true exactly
\* when the payload lists more than two participants or its chat_id is a
\* group id (contains "@g.us").
C23_GroupDetection ==
    (lastOp.op = "webhook" /\ lastOp.res \in Saved)
    => \A b \in lastOp.ref :
          chats[lastOp.chat].is_group
             = (Len(b.attendees) > 2 \/ b.chat_id = GeneralChat)

\* C23 witness: a payload with three participants and a chat_id that is no
\* group id was stored with is_group true.
C23_Witness ==
    /\ lastOp.op = "webhook" /\ lastOp.res \in Saved
    /\ \E b \in lastOp.ref : Len(b.attendees) = 3 /\ b.chat_id = MY_CHAT_ID
    /\ chats[MY_CHAT_ID].is_group

\* C24: an extraction that got "[]" or an answer that is not JSON from the
\* AI service returns no transaction; after an extraction that returned none the
\* run stands before mark_chat_as_processed with no row written; and the
\* step the run takes from there is that mark which, when the store accepts
\* it, clears the finance conversation's flag and sets its watermark.
C24_FinanceEmptyResult ==
    [][ /\ lastOp'.op = "fin_extract"
           => \A q \in lastOp'.ref :
                 /\ q.answer \in {"not json", "[]"} => q.returned.items = <<>>
                 /\ q.returned.items = <<>>
                       => (pc' = "fin_mark" /\ appendRes' = "none" /\ batch' # {})
        /\ (pc = "fin_mark" /\ appendRes = "none" /\ pc' # pc)
           => /\ lastOp'.op = "fin_mark"
              /\ lastOp'.res = "ok"
                    => /\ ~chats'[FINANCE_GROUP_ID].needs_summary
                       /\ chats'[FINANCE_GROUP_ID].last_processed_at = now ]_vars

\* C24 witness: the finance conversation was marked after a batch that was
\* not empty and for which no row was written.
C24_Witness ==
    /\ lastOp.op = "fin_mark" /\ lastOp.res = "ok"
    /\ batch # {} /\ appendRes = "none"
    /\ ~chats[FINANCE_GROUP_ID].needs_summary
    /\ chats[FINANCE_GROUP_ID].last_processed_at # Unset

\* C25: while no call of the store, the AI service or the spreadsheet
\* service has failed, what an extraction returns is a list, whatever the
\* answer of the AI service was, and no item of it makes the run leave the
\* append loop with an exception.
C25_FinanceOutputShape ==
    faults = 0
    => /\ lastOp.op = "fin_extract"
          => \A q \in lastOp.ref : q.returned.kind = "list"
       /\ ~(lastOp.op \in {"fin_extract", "fin_append"} /\ lastOp.res = "bad_record")

\* C26: the delivery of a payload whose event is neither message_received nor
\* message_created, or whose account_id is not the configured account while
\* one is configured, is not stored and leaves every conversation document
\* and every message document as it was.
C26_FilteredEventsNoEffect ==
    [][lastOp'.op = "webhook"
       => \A b \in lastOp'.ref \ {Unparseable, NotAMapping} :
             ( \/ b.event \notin {"message_received", "message_created"}
               \/ (UNIPILE_ACCOUNT_ID # "" /\ b.account_id # UNIPILE_ACCOUNT_ID) )
             => /\ lastOp'.res \in {"skip_kind", "skip_account"}
                /\ chats' = chats /\ msgs' = msgs]_vars

\* C26 witness: a message_read event was skipped for a conversation that
\* holds a message and is flagged.
C26_Witness ==
    /\ lastOp.op = "webhook" /\ lastOp.res = "skip_kind"
    /\ \E b \in lastOp.ref : b.event = "message_read"
    /\ msgs[lastOp.chat] # {} /\ chats[lastOp.chat].needs_summary

\* C27: a step that is a get_weekly_context, a get_new_messages_only or a
\* get_unprocessed_chats leaves every conversation document and every message
\* as it was, and a step that changes a conversation's last_processed_at is a
\* mark_chat_as_processed of that conversation.
C27_ReadsDoNotConsume ==
    [][ /\ lastOp'.op \in {"sales_read", "fin_read", "unprocessed"}
           => (chats' = chats /\ msgs' = msgs)
        /\ \A c \in ChatIds :
              chats'[c].last_processed_at # chats[c].last_processed_at
              => (lastOp'.op \in MarkOps /\ lastOp'.chat = c) ]_vars

\* C27 witness: get_new_messages_only has returned the text of the finance
\* conversation, whose flag is still set and whose watermark was never set.
C27_Witness ==
    /\ lastOp = Op("fin_read", FINANCE_GROUP_ID, "ok")
    /\ history # <<>>
    /\ chats[FINANCE_GROUP_ID].needs_summary
    /\ chats[FINANCE_GROUP_ID].last_processed_at = Unset

\* ------------------------------------------- single calls of the services
\* What the AI API and the spreadsheet API would answer to the successive
\* attempts of one call, one attempt more than the retry decorators allow.
RunLen == MaxAttempts + 1
GeminiRuns == [1..RunLen -> BOOLEAN]
AppendRuns == {api \in [1..RunLen -> AppendOutcomes] : api[RunLen] = "ok"}

\* The system instructions the agents pass.
SystemInstructions == {"SALES", "STRATEGY", "FINANCE"}

\* One call of GeminiService.generate_response(system_instruction, ...) on
\* the shared service; the request carries the instruction run_config holds
\* when generate_content is called.
GeminiCall(api, system_instruction) ==
    /\ default_config' = set_system_instruction(system_instruction)
    /\ lastOp' = [Op("generate", "", generate_response(api).res) EXCEPT
                     !.ref = {[api |-> api,
                               attempts |-> generate_response(api).attempts,
                               system_instruction |-> system_instruction,
                               sent |-> system_instruction]}]
    /\ UNCHANGED <<chats, msgs, now, pc, chat_ids, cur, history, batch,
                   appendRes, txs, sheetsReady, cycles, ops, faults, handed>>

\* One call of GoogleSheetsService.append_row, the service ready or not.
SheetsCall(ready, api) ==
    /\ lastOp' = [Op("append", "", append_row(ready, api).res) EXCEPT
                     !.ref = {[api |-> api, ready |-> ready,
                               attempts |-> append_row(ready, api).attempts]}]
    /\ UNCHANGED <<chats, msgs, now, pc, chat_ids, cur, history, batch,
                   appendRes, txs, sheetsReady, cycles, ops, faults, handed>>
    /\ UNCHANGED default_config

NextServices ==
    \/ \E api \in GeminiRuns, system_instruction \in SystemInstructions :
          GeminiCall(api, system_instruction)
    \/ \E ready \in BOOLEAN, api \in AppendRuns : SheetsCall(ready, api)

SpecServices == Init /\ [][NextServices]_vars

Transient == {"http_transient", "timeout"}

\* C28: one call of generate_response or append_row makes at most three
\* attempts and ends by returning or by raising, and an append_row whose
\* three attempts all met a transient failure returns False.
C28_BoundedRetry ==
    lastOp.op \in {"generate", "append"}
    => \A q \in lastOp.ref :
          /\ q.attempts <= 3
          /\ lastOp.res \in {"ok", "false", "raise"}
          /\ ( /\ lastOp.op = "append" /\ q.ready
               /\ \A i \in 1..3 : q.api[i] \in Transient )
             => lastOp.res = "false"

\* C29: an append_row whose attempt is answered 403 or 404, after transient
\* failures only, makes no further attempt and does not succeed.
C29_PermanentNotRetried ==
    lastOp.op = "append"
    => \A q \in lastOp.ref : \A i \in 1..3 :
          ( /\ q.ready /\ q.api[i] = "http_permanent"
            /\ \A j \in 1..(i - 1) : q.api[j] \in Transient )
          => (q.attempts = i /\ lastOp.res # "ok")

\* The conversation fields a save of payload b at time t writes by overwriting.
Written(b, t) == chat_update_of(NoChat, UnipileMessageEvent(b, t), t)

\* C30: when two payloads with different message ids are stored one right
\* after the other in the same conversation, in either order, the conversation
\* then holds a message document for each, participants_ids and
\* participants_names hold the sender of each (when the payload names one),
\* needs_summary is set, and last_message_preview, last_activity and is_group
\* are what the first save left or what the second one writes.
C30_ConcurrentIngestion ==
    [][ ( /\ lastOp.op = "webhook" /\ lastOp.res \in Saved
          /\ lastOp'.op = "webhook" /\ lastOp'.res \in Saved
          /\ lastOp'.chat = lastOp.chat )
        => \A a \in lastOp.ref : \A b \in lastOp'.ref :
              a.id # b.id
              => LET c == lastOp.chat
                     w == Written(b, now)
                 IN  /\ {a.id, b.id} \subseteq Ids(msgs'[c])
                     /\ \A x \in {a, b} :
                           /\ Truthy(x.sender_id)
                                 => x.sender_id \in Range(chats'[c].participants_ids)
                           /\ Truthy(x.sender_name)
                                 => x.sender_name \in Range(chats'[c].participants_names)
                     /\ chats'[c].needs_summary
                     /\ chats'[c].last_message_preview
                           \in {chats[c].last_message_preview, w.last_message_preview}
                     /\ chats'[c].last_activity \in {chats[c].last_activity, w.last_activity}
                     /\ chats'[c].is_group \in {chats[c].is_group, w.is_group} ]_vars

\* C30 witness: the general conversation holds the two messages that Alice
\* and Bob sent, stored one after the other, and lists both as participants.
C30_Witness ==
    /\ lastOp.op = "webhook" /\ lastOp.res = "saved" /\ lastOp.chat = GeneralChat
    /\ Ids(msgs[GeneralChat]) = {"m1", "m2"}
    /\ {"a1", "b1"} \subseteq Range(chats[GeneralChat].participants_ids)
    /\ {"Alice", "Bob"} \subseteq Range(chats[GeneralChat].participants_names)
    /\ chats[GeneralChat].needs_summary

\* C31: a delivery that is stored leaves the conversation's last_processed_at
\* as it was, leaves its chat_name as it was when the payload carries none,
\* and drops no element of participants_ids or participants_names.
C31_MergeOnlyUpdate ==
    [][(lastOp'.op = "webhook" /\ lastOp'.res \in Saved)
       => LET c == lastOp'.chat IN
          /\ chats'[c].last_processed_at = chats[c].last_processed_at
          /\ \A b \in lastOp'.ref :
                ~Truthy(b.chat_name) => chats'[c].chat_name = chats[c].chat_name
          /\ Range(chats[c].participants_ids) \subseteq Range(chats'[c].participants_ids)
          /\ Range(chats[c].participants_names)
                \subseteq Range(chats'[c].participants_names)]_vars

\* C31 witness: a payload without chat_name was stored in a conversation that
\* is named, has a watermark and lists a participant other than its sender.
C31_Witness ==
    /\ lastOp.op = "webhook" /\ lastOp.res \in Saved
    /\ \E b \in lastOp.ref :
          /\ b.chat_name = Absent
          /\ \E x \in Range(chats[lastOp.chat].participants_ids) : x # b.sender_id
    /\ chats[lastOp.chat].chat_name = "Team"
    /\ chats[lastOp.chat].last_processed_at # Unset

\* C32: the text a get_weekly_context that succeeded has just returned holds
\* the line of every message of the conversation stored at or after the
\* start of the window, those stored before the conversation's
\* last_processed_at included.
C32_WindowIgnoresWatermark ==
    (lastOp.op = "sales_read" /\ lastOp.res = "ok")
    => \A d \in msgs[lastOp.chat] :
          d.stored_at >= (Day(now) - WindowDays) * DayLen
          => /\ WeeklyLine(d) \in Range(history)
             /\ [id |-> d.id, at |-> d.stored_at] \in batch

\* C32 witness: the text returned for a conversation holds the line of a
\* message stored before the conversation's watermark.
C32_Witness ==
    /\ lastOp.op = "sales_read" /\ lastOp.res = "ok"
    /\ chats[lastOp.chat].last_processed_at # Unset
    /\ \E d \in msgs[lastOp.chat] :
          /\ d.stored_at < chats[lastOp.chat].last_processed_at
          /\ WeeklyLine(d) \in Range(history)

\* C33: a call of generate_response leaves the system instruction of the
\* service's default config as it was, and the request it sends carries the
\* instruction passed to it.
C33_ConfigCopy ==
    [][lastOp'.op = "generate"
       => /\ default_config' = default_config
          /\ \A q \in lastOp'.ref : q.sent = q.system_instruction]_vars

\* C34: while no call has failed, a mark the sales loop makes after analysing
\* a batch leaves the finance group's last_processed_at as it was, and the
\* finance part of the first run, reading a finance group that holds
\* messages, gets a text with the line of each of them and goes on to
\* extract_transactions.
C34_FinanceReachesStrategy ==
    [][ /\ (lastOp'.op = "sales_mark" /\ faults' = 0 /\ batch' # {})
           => chats'[FINANCE_GROUP_ID].last_processed_at
                 = chats[FINANCE_GROUP_ID].last_processed_at
        /\ ( /\ lastOp'.op = "fin_read" /\ lastOp'.res = "ok"
             /\ faults' = 0 /\ cycles' = 1 /\ msgs[FINANCE_GROUP_ID] # {} )
           => /\ Keys(msgs[FINANCE_GROUP_ID]) \subseteq batch'
              /\ pc' = "fin_ai" ]_vars

\* C35: no step lowers a conversation's last_processed_at, and none takes a
\* last_processed_at that is set back to unset.
C35_WatermarkNeverBackwards ==
    [][\A c \in ChatIds :
          /\ chats'[c].last_processed_at >= chats[c].last_processed_at
          /\ chats[c].last_processed_at # Unset
                => chats'[c].last_processed_at # Unset]_vars

\* C35 witness: a conversation marked in a second run, after a message that
\* the first run had handed to a strategy and one that the second run did.
C35_Witness ==
    /\ lastOp.op \in MarkOps /\ lastOp.res = "ok" /\ cycles = 2
    /\ chats[lastOp.chat].last_processed_at # Unset
    /\ \E d1, d2 \in msgs[lastOp.chat] :
          /\ handed[lastOp.chat][d1.id].run = 1
          /\ handed[lastOp.chat][d2.id].run = 2
          /\ d2.stored_at < chats[lastOp.chat].last_processed_at

\* C36: a delivery that is stored in a conversation whose is_group is true
\* leaves it true.
C36_GroupStatusStable ==
    [][(lastOp'.op = "webhook" /\ lastOp'.res \in Saved)
       => (chats[lastOp'.chat].is_group => chats'[lastOp'.chat].is_group)]_vars

\* C36 as the code has it: a delivery that is stored in a conversation whose
\* is_group is true leaves it true exactly when the payload itself lists more
\* than two participants or the chat_id is a group id; otherwise is_group
\* becomes false.
C36_GroupStatusLastWrite ==
    [][(lastOp'.op = "webhook" /\ lastOp'.res \in Saved /\ chats[lastOp'.chat].is_group)
       => \A b \in lastOp'.ref :
             chats'[lastOp'.chat].is_group
                = (Len(b.attendees) > 2 \/ b.chat_id = GeneralChat)]_vars

\* C36 witness: the finance group, which holds the message that listed three
\* participants, is no group after a message that lists two was stored.
C36_Witness ==
    /\ lastOp.op = "webhook" /\ lastOp.res \in Saved
    /\ lastOp.chat = FINANCE_GROUP_ID
    /\ \E b \in lastOp.ref : Len(b.attendees) = 2
    /\ \E d \in msgs[FINANCE_GROUP_ID] : Len(d.attendees) = 3
    /\ ~chats[FINANCE_GROUP_ID].is_group

\* C37: in every conversation document that exists, ai_processed is the
\* negation of needs_summary.
C37_FlagPair ==
    \A c \in ChatIds :
        chats[c].exists => (chats[c].ai_processed = ~chats[c].needs_summary)

\* C37 witness: one conversation was marked and then written again by a
\* save, while another one stands as its mark left it.
C37_Witness ==
    \E c1, c2 \in ChatIds :
        /\ lastOp.op = "webhook" /\ lastOp.res \in Saved /\ lastOp.chat = c1
        /\ chats[c1].last_processed_at # Unset
        /\ chats[c1].needs_summary /\ ~chats[c1].ai_processed
        /\ chats[c2].exists /\ chats[c2].ai_processed /\ ~chats[c2].needs_summary

====
